---- MODULE Spec2Model ----
(***************************************************************************)
(* A model of src/script.js: the filterable multi-line trend chart.        *)
(*                                                                         *)
(* State: the loaded table (processData), the filter state and the two     *)
(* filter controls, and the closure state of renderChart (visible data,    *)
(* y scale, colour scale, flattened samples, nearest-neighbour index,      *)
(* remembered match, line elements, marker overlay).                       *)
(* One action per DOM event handler; JavaScript runs each handler to       *)
(* completion, so each handler is one atomic step.                         *)
(*                                                                         *)
(* Numbers.  Pixel coordinates are exact rationals kept as integer         *)
(* numerators: an x coordinate is a numerator over xDen(years), a y        *)
(* coordinate a numerator over the yDen of the y scale that produced it.   *)
(***************************************************************************)
EXTENDS Integers, Sequences, FiniteSets, TLC

(***************************************************************************)
(* Bounds of the model (inputs are drawn from these).                      *)
(***************************************************************************)
\* Most rows a loaded table has.
MaxRows == 2

(***************************************************************************)
(* Encodings of JavaScript values that are not numbers or strings.         *)
(***************************************************************************)
\* null (iDelaunay = null, an attribute that is not set).
null == -1
\* NaN (Math.min(90, undefined), a scale applied on a NaN domain,
\* delaunay.find on an index without points).
NaN == -2

(***************************************************************************)
(* Program constants.                                                      *)
(***************************************************************************)
COLOR_SCHEME == <<"#1f77b4", "#ff7f0e">>
MAX_COUNT == 2
\* container.node().clientWidth, read once at construction.
width == 810
height == 600
marginTop == 30
marginRight == 180
marginBottom == 30
marginLeft == 30
\* The floor of the y domain's lower bound.
MinFloor == 90
\* Least distance between two adjacent end-of-line labels, in pixels.
LabelGap == 12
\* Opacities, in percent: gLine.attr("opacity", 1 or 0.1).
OpacityFull == 100
OpacityDim == 10

(***************************************************************************)
(* The input table: d3.csv's result, an array of rows with .columns.       *)
(* Every cell is a string; a numeric cell and a year label are strings of  *)
(* decimal digits, modelled as sequences of one-character strings.         *)
(***************************************************************************)
Columns == <<"Type", "Nutrient", "Region", <<"2","0","0","8">>, <<"2","0","0","9">>>>

\* The (Type, Nutrient, Region) cells a row is drawn from.
RowHeads ==
  { [Type |-> "Mineral", Nutrient |-> "Iron", Region |-> "North"],
    [Type |-> "Vitamin", Nutrient |-> "A",    Region |-> "South"],
    [Type |-> "Vitamin", Nutrient |-> "A",    Region |-> "North"] }

\* The year cells a row is drawn from.
RowCells ==
  { << <<"6","0">>,     <<"1","0","0">> >>,
    << <<"1","4","0">>, <<"1","0","2">> >> }

CsvRows == { [Type |-> h.Type, Nutrient |-> h.Nutrient, Region |-> h.Region, cells |-> c] :
             h \in RowHeads, c \in RowCells }

Row(t, n, r, c) == [Type |-> t, Nutrient |-> n, Region |-> r, cells |-> c]
CellsLow == << <<"6","0">>, <<"1","0","0">> >>
CellsHigh == << <<"1","4","0">>, <<"1","0","2">> >>

\* Three regions and two types; within type Vitamin the regions first
\* appear in another order (South, North, East) than in the table.
TableThreeRegions ==
  << Row("Mineral", "Iron", "North", CellsHigh),
     Row("Vitamin", "A", "South", CellsLow),
     Row("Vitamin", "A", "North", CellsLow),
     Row("Vitamin", "C", "East", CellsHigh) >>

\* Three series of one type in two regions, two of them ending at the
\* same value and the third 13.5 pixels below them.
TableThreeSeries ==
  << Row("Vitamin", "A", "North", CellsLow),
     Row("Vitamin", "C", "North", CellsHigh),
     Row("Vitamin", "A", "South", CellsHigh),
     Row("Mineral", "Iron", "East", CellsLow) >>

\* The tables a run may load: every table of 1..MaxRows rows, and the two
\* larger ones above.
Tables == UNION { [1..n -> CsvRows] : n \in 1..MaxRows }
          \cup {TableThreeRegions, TableThreeSeries}

(***************************************************************************)
(* JavaScript helpers.                                                     *)
(***************************************************************************)
DigitValue(c) ==
  CASE c = "0" -> 0 [] c = "1" -> 1 [] c = "2" -> 2 [] c = "3" -> 3 [] c = "4" -> 4
    [] c = "5" -> 5 [] c = "6" -> 6 [] c = "7" -> 7 [] c = "8" -> 8 [] c = "9" -> 9

\* Unary plus on a string of decimal digits (+"" is 0).
RECURSIVE ToNumber(_)
ToNumber(s) ==
  IF Len(s) = 0 THEN 0
  ELSE 10 * ToNumber(SubSeq(s, 1, Len(s) - 1)) + DigitValue(s[Len(s)])

\* Array.prototype.includes
includes(arr, x) == \E i \in 1..Len(arr) : arr[i] = x

\* [...new Set(arr)]: the distinct elements, in order of first appearance.
RECURSIVE Distinct(_)
Distinct(arr) ==
  IF Len(arr) = 0 THEN <<>>
  ELSE LET front == Distinct(SubSeq(arr, 1, Len(arr) - 1))
           x == arr[Len(arr)]
       IN IF includes(front, x) THEN front ELSE Append(front, x)

\* Array.prototype.indexOf, 1-based; 0 when absent.
indexOf(arr, x) ==
  IF includes(arr, x) THEN CHOOSE i \in 1..Len(arr) : arr[i] = x /\ \A j \in 1..(i-1) : arr[j] # x
  ELSE 0

Min2(a, b) == IF a <= b THEN a ELSE b
Max2(a, b) == IF a >= b THEN a ELSE b

\* d3.min / d3.max of a non-empty array of numbers.
RECURSIVE d3min(_)
d3min(arr) ==
  IF Len(arr) = 1 THEN arr[1] ELSE Min2(d3min(SubSeq(arr, 1, Len(arr) - 1)), arr[Len(arr)])
RECURSIVE d3max(_)
d3max(arr) ==
  IF Len(arr) = 1 THEN arr[1] ELSE Max2(d3max(SubSeq(arr, 1, Len(arr) - 1)), arr[Len(arr)])

(***************************************************************************)
(* processData(csv), lines 49-73.                                          *)
(***************************************************************************)
processData(csv) ==
  LET yrs == SubSeq(Columns, 4, Len(Columns))
  IN [ data |-> [ i \in 1..Len(csv) |->
                    [ nutrientType |-> csv[i].Type,
                      nutrient     |-> csv[i].Nutrient,
                      region       |-> csv[i].Region,
                      values       |-> [ y \in 1..Len(yrs) |-> ToNumber(csv[i].cells[y]) ] ] ],
       years |-> yrs,
       nutrientTypes |-> Distinct([ i \in 1..Len(csv) |-> csv[i].Type ]),
       regions |-> Distinct([ i \in 1..Len(csv) |-> csv[i].Region ]) ]

(***************************************************************************)
(* filterData(data, filters), lines 78-84.                                 *)
(***************************************************************************)
\* A plausible slip: the region test left out.
filterCallbackNoRegion(d, f) == f.nutrientType = d.nutrientType

\* The callback given to data.filter.
filterCallback(d, f) ==
  IF f.nutrientType # d.nutrientType THEN FALSE
  ELSE IF ~includes(f.regions, d.region) THEN FALSE
  ELSE TRUE

\* Array.prototype.filter: walk the array in index order, keep what passes.
RECURSIVE filterFrom(_, _, _)
filterFrom(d, f, i) ==
  IF i > Len(d) THEN <<>>
  ELSE (IF filterCallback(d[i], f) THEN <<d[i]>> ELSE <<>>) \o filterFrom(d, f, i + 1)

\* A plausible slip: the records that fail are removed in place while the
\* loop walks forward, which skips the record after each removed one.
RECURSIVE spliceFrom(_, _, _)
spliceFrom(d, f, i) ==
  IF i > Len(d) THEN d
  ELSE IF filterCallback(d[i], f) THEN spliceFrom(d, f, i + 1)
  ELSE spliceFrom(SubSeq(d, 1, i - 1) \o SubSeq(d, i + 1, Len(d)), f, i + 1)
filterDataSplicing(d, f) == spliceFrom(d, f, 1)

filterData(d, f) == filterFrom(d, f, 1)

(***************************************************************************)
(* The scales of renderChart, lines 207-225.                               *)
(* d3.scaleLinear maps domain [d0, d1] onto range [r0, r1]:                *)
(* scale(v) = r0 + (v - d0) / (d1 - d0) * (r1 - r0), and the midpoint of   *)
(* the range when d0 = d1.  A coordinate is kept as the numerator of that  *)
(* exact value over the scale's denominator.                               *)
(***************************************************************************)
xRange == <<marginLeft, width - marginRight>>
yRange == <<height - marginBottom, marginTop>>

xFirst(yrs) == ToNumber(yrs[1])
xLast(yrs) == ToNumber(yrs[Len(yrs)])
xDen(yrs) == IF xLast(yrs) = xFirst(yrs) THEN 2 ELSE 2 * (xLast(yrs) - xFirst(yrs))
\* xScale(year) times xDen; the year is a column label, coerced by the scale.
xScale(yrs, year) ==
  IF xLast(yrs) = xFirst(yrs) THEN xRange[1] + xRange[2]
  ELSE 2 * (xRange[1] * (xLast(yrs) - xFirst(yrs))
            + (ToNumber(year) - xFirst(yrs)) * (xRange[2] - xRange[1]))

yDen(dom) ==
  IF dom[1] = NaN \/ dom[1] = dom[2] THEN 2 ELSE 2 * (dom[2] - dom[1])
\* yScale(v) times yDen; NaN on a NaN domain.
yScale(dom, v) ==
  IF dom[1] = NaN THEN NaN
  ELSE IF dom[1] = dom[2] THEN yRange[1] + yRange[2]
  ELSE 2 * (yRange[1] * (dom[2] - dom[1]) - (v - dom[1]) * (yRange[1] - yRange[2]))

RECURSIVE GCD(_, _)
GCD(a, b) == IF b = 0 THEN a ELSE GCD(b, a % b)

\* Every difference of two x numerators and of two y numerators is a
\* multiple of Unit; distances are compared in units of Unit.
Unit == GCD(2 * (xRange[2] - xRange[1]), yRange[1] - yRange[2])

(***************************************************************************)
(* yScale.domain([minY, maxY]).nice(), line 283 (d3-scale, d3-array).      *)
(***************************************************************************)
RECURSIVE Pow10Floor(_)
\* The largest power of ten that is <= n, for n >= 1.
Pow10Floor(n) == IF n < 10 THEN 1 ELSE 10 * Pow10Floor(n \div 10)

\* d3.tickIncrement(start, stop, 10) for integers start < stop: the step
\* when it is >= 1, and minus the inverse of the step when it is < 1.
tickIncrement(start, stop) ==
  LET span == stop - start
      P == Pow10Floor(span)
      factor == IF span * span >= 50 * P * P THEN 10
                ELSE IF span * span >= 10 * P * P THEN 5
                ELSE IF span * span >= 2 * P * P THEN 2
                ELSE 1
  IN IF P >= 10 THEN factor * (P \div 10) ELSE -(10 \div factor)

\* The loop of scale.nice: at most maxIter rounds; the domain is replaced
\* only when a round finds the step of the round before.
RECURSIVE niceLoop(_, _, _, _, _)
niceLoop(dom, start, stop, prestep, maxIter) ==
  IF maxIter = 0 \/ start = NaN \/ start = stop THEN dom
  ELSE LET step == tickIncrement(start, stop)
       IN IF step = prestep THEN <<start, stop>>
          ELSE IF step > 0
            THEN niceLoop(dom, (start \div step) * step, (-((-stop) \div step)) * step,
                          step, maxIter - 1)
          \* a step below 1 leaves integer bounds where they are
          ELSE niceLoop(dom, start, stop, step, maxIter - 1)

nice(dom) == niceLoop(dom, dom[1], dom[2], 0, 10)

(***************************************************************************)
(* processData() of renderChart, lines 276-308.                            *)
(***************************************************************************)
\* A plausible slip: no floor at 90.
chartMinYNoFloor(d) ==
  IF Len(d) = 0 THEN NaN ELSE d3min([ i \in 1..Len(d) |-> d3min(d[i].values) ])

\* minY, lines 278-281: Math.min(90, undefined) is NaN.
chartMinY(d) ==
  IF Len(d) = 0 THEN NaN
  ELSE Min2(MinFloor, d3min([ i \in 1..Len(d) |-> d3min(d[i].values) ]))

\* maxY, line 282: undefined becomes NaN in the domain.
chartMaxY(d) ==
  IF Len(d) = 0 THEN NaN ELSE d3max([ i \in 1..Len(d) |-> d3max(d[i].values) ])

\* flatData, lines 291-296: each data point [year, value, nutrient].
RECURSIVE flatten(_, _)
flatten(d, yrs) ==
  IF Len(d) = 0 THEN <<>>
  ELSE flatten(SubSeq(d, 1, Len(d) - 1), yrs)
       \o [ i \in 1..Len(yrs) |-> <<yrs[i], d[Len(d)].values[i], d[Len(d)].nutrient>> ]

\* A plausible slip: the y accessor returns the value, not its pixel.
buildDelaunayRawY(flat, yrs, dom) ==
  [ points |-> [ i \in 1..Len(flat) |->
                   [ x |-> xScale(yrs, flat[i][1]), y |-> flat[i][2] * Unit ] ],
    yDen |-> yDen(dom) ]

\* d3.Delaunay.from(flatData, d => xScale(d[0]), d => yScale(d[1])),
\* lines 299-303: the index holds the pixel coordinates of its points.
buildDelaunay(flat, yrs, dom) ==
  [ points |-> [ i \in 1..Len(flat) |->
                   [ x |-> xScale(yrs, flat[i][1]), y |-> yScale(dom, flat[i][2]) ] ],
    yDen |-> yDen(dom) ]

\* colorScale(region): d3.scaleOrdinal over COLOR_SCHEME with the given domain.
ordinalColor(domain, region, unknown) ==
  IF includes(domain, region)
  THEN COLOR_SCHEME[((indexOf(domain, region) - 1) % Len(COLOR_SCHEME)) + 1]
  ELSE unknown

(***************************************************************************)
(* updateChart(), lines 311-388.                                           *)
(***************************************************************************)
\* The key of the data joins, lines 347 and 414.
joinKey(d) == d.region \o "-" \o d.nutrient

lastValue(d) == d.values[Len(d.values)]

\* selection.sort by the latest value (lines 373-380): indexes of d in
\* ascending order of lastValue, equal values in their former order.
RECURSIVE sortByLast(_)
sortByLast(d) ==
  IF Len(d) = 0 THEN <<>>
  ELSE LET front == sortByLast(SubSeq(d, 1, Len(d) - 1))
           k == Cardinality({ j \in 1..Len(front) : lastValue(d[front[j]]) <= lastValue(d[Len(d)]) })
       IN SubSeq(front, 1, k) \o <<Len(d)>> \o SubSeq(front, k + 1, Len(front))

\* A plausible slip: every label is put 12 pixels above the one before,
\* crowded or not.
nextLabelYAlwaysPush(currentLabelY, y, den) ==
  IF y = NaN THEN NaN ELSE currentLabelY - LabelGap * den

\* A plausible slip: the 12 pixels left out.
nextLabelYNoGap(currentLabelY, y, den) ==
  IF y = NaN THEN NaN ELSE Min2(currentLabelY, y)

\* Line 385: currentLabelY = Math.min(currentLabelY - 12, y), times den.
nextLabelY(currentLabelY, y, den) ==
  IF y = NaN THEN NaN ELSE Min2(currentLabelY - LabelGap * den, y)

\* The y attribute of the k-th label in sorted order (lines 372-387).
RECURSIVE labelYAt(_, _, _, _)
labelYAt(d, dom, order, k) ==
  nextLabelY(IF k = 1 THEN height * yDen(dom) ELSE labelYAt(d, dom, order, k - 1),
             yScale(dom, lastValue(d[order[k]])), yDen(dom))

\* The element a key is bound to before the join, in document order
\* (oldOrder lists the old elements' indexes in document order); 0 if none.
oldNode(oldLine, oldOrder, key) ==
  IF \E j \in 1..Len(oldOrder) : oldLine[oldOrder[j]].key = key
  THEN oldOrder[CHOOSE j \in 1..Len(oldOrder) :
                  /\ oldLine[oldOrder[j]].key = key
                  /\ \A h \in 1..(j - 1) : oldLine[oldOrder[h]].key # key]
  ELSE 0

\* gLine after updateChart: one element per datum, in data order.  A datum
\* whose key is new (or already taken by an earlier datum) enters with no
\* opacity attribute, which renders as full opacity; a matched element
\* keeps its opacity attribute.
joinLines(d, dom, colorDomain, oldLine, oldOrder) ==
  LET order == sortByLast(d)
      pos(i) == CHOOSE k \in 1..Len(order) : order[k] = i
  IN [ i \in 1..Len(d) |->
       LET key == joinKey(d[i])
           first == \A j \in 1..(i - 1) : joinKey(d[j]) # key
           old == IF first THEN oldNode(oldLine, oldOrder, key) ELSE 0
       IN [ key |-> key,
            datum |-> d[i],
            opacity |-> IF old = 0 THEN OpacityFull ELSE oldLine[old].opacity,
            stroke |-> ordinalColor(colorDomain, d[i].region, "implicit"),
            text |-> d[i].nutrient,
            y |-> labelYAt(d, dom, order, pos(i)) ] ]

(***************************************************************************)
(* delaunay.find(xm, ym, start), line 397 (d3-delaunay).                   *)
(* The library's contract: the index of the point of the triangulation     *)
(* closest to (xm, ym), found by walking from point start to ever closer   *)
(* neighbours.  Coincident input points are triangulated once: kept holds  *)
(* the indexes (0-based) that are in the triangulation.                    *)
(***************************************************************************)
\* The squared distance of p and q, times (xDen * den / Unit)^2.
Dist2(p, q, xden, den) ==
  LET dx == ((p.x - q.x) * den) \div Unit
      dy == ((p.y - q.y) * xden) \div Unit
  IN dx * dx + dy * dy

\* The triangulated points at the least distance from m.
nearest(dl, xden, m) ==
  LET d == [k \in dl.kept |-> Dist2(dl.points[k + 1], m, xden, dl.yDen)]
  IN { k \in dl.kept : \A j \in dl.kept : d[k] <= d[j] }

\* A plausible slip in the use of the hint: the walk stays at its start.
findResultsStuck(dl, xden, m, start) ==
  IF Len(dl.points) = 0 THEN {NaN} ELSE {start}

\* The indexes find may return.  A start that is itself a closest
\* triangulated point is returned (no neighbour is strictly closer);
\* otherwise the walk ends at some closest point.  On an index without
\* points the first step is (start + 1) % 0, which is NaN, and find
\* returns it (the d3 that has d3.pointer, line 395, ships this find).
findResults(dl, xden, m, start) ==
  IF Len(dl.points) = 0 THEN {NaN}
  ELSE LET closest == nearest(dl, xden, m)
       IN IF start \in closest THEN {start} ELSE closest

\* The sets of indexes the triangulation may keep: one of every class of
\* coincident points.
keptChoices(points) ==
  LET idx == 0..(Len(points) - 1)
  IN { K \in SUBSET idx :
         /\ \A i \in idx : \E k \in K : points[k + 1] = points[i + 1]
         /\ \A k, j \in K : points[k + 1] = points[j + 1] => k = j }

(***************************************************************************)
(* The closure state of renderChart and its functions.                     *)
(***************************************************************************)
\* renderChart(container, years, data), lines 204-274: before processData.
renderChart(d) ==
  [ data |-> d, minY |-> NaN, maxY |-> NaN, yDomain |-> <<NaN, NaN>>,
    regions |-> <<>>, flatData |-> <<>>,
    delaunay |-> [points |-> <<>>, yDen |-> 2, kept |-> {}],
    iDelaunay |-> null, gLine |-> <<>>, gDotsDisplay |-> "none", gDot |-> <<>> ]

\* A plausible slip: the remembered match is not reset on a data update.
chartProcessDataKeepsMatch(c, yrs, kept) ==
  LET dom == nice(<<chartMinY(c.data), chartMaxY(c.data)>>)
      colorDomain == Distinct([ i \in 1..Len(c.data) |-> c.data[i].region ])
      flat == flatten(c.data, yrs)
      dl == buildDelaunay(flat, yrs, dom)
  IN [ c EXCEPT !.minY = chartMinY(c.data), !.maxY = chartMaxY(c.data),
                !.yDomain = dom, !.regions = colorDomain,
                !.flatData = flat,
                !.delaunay = [points |-> dl.points, yDen |-> dl.yDen, kept |-> kept],
                !.gLine = joinLines(c.data, dom, colorDomain, c.gLine,
                                    sortByLast([ i \in 1..Len(c.gLine) |-> c.gLine[i].datum ])) ]

\* A plausible slip: the index is not rebuilt on a data update.
chartProcessDataStaleIndex(c, yrs, kept) ==
  LET dom == nice(<<chartMinY(c.data), chartMaxY(c.data)>>)
      colorDomain == Distinct([ i \in 1..Len(c.data) |-> c.data[i].region ])
  IN [ c EXCEPT !.minY = chartMinY(c.data), !.maxY = chartMaxY(c.data),
                !.yDomain = dom, !.regions = colorDomain,
                !.flatData = flatten(c.data, yrs),
                !.iDelaunay = null,
                !.gLine = joinLines(c.data, dom, colorDomain, c.gLine,
                                    sortByLast([ i \in 1..Len(c.gLine) |-> c.gLine[i].datum ])) ]

\* processData() then updateChart(), lines 276-388; kept is the library's
\* choice among coincident points.  c.data is already the new data.
chartProcessData(c, yrs, kept) ==
  LET dom == nice(<<chartMinY(c.data), chartMaxY(c.data)>>)
      colorDomain == Distinct([ i \in 1..Len(c.data) |-> c.data[i].region ])
      flat == flatten(c.data, yrs)
      dl == buildDelaunay(flat, yrs, dom)
  IN [ c EXCEPT !.minY = chartMinY(c.data), !.maxY = chartMaxY(c.data),
                !.yDomain = dom, !.regions = colorDomain,
                !.flatData = flat,
                !.delaunay = [points |-> dl.points, yDen |-> dl.yDen, kept |-> kept],
                !.iDelaunay = null,
                !.gLine = joinLines(c.data, dom, colorDomain, c.gLine,
                                    sortByLast([ i \in 1..Len(c.gLine) |-> c.gLine[i].datum ])) ]

\* The coincidence classes the library chooses among for new data.
updateKeptChoices(newData, yrs) ==
  keptChoices(buildDelaunay(flatten(newData, yrs), yrs,
                            nice(<<chartMinY(newData), chartMaxY(newData)>>)).points)

\* updateData(newData), lines 450-453.
updateData(c, newData, yrs, kept) ==
  chartProcessData([c EXCEPT !.data = newData], yrs, kept)

(***************************************************************************)
(* State.                                                                  *)
(***************************************************************************)
VARIABLES
  data,            \* the full record set (line 4)
  years,           \* the year columns
  nutrientTypes,   \* the distinct types
  regions,         \* the distinct regions
  filters,         \* lines 7-10
  filteredData,    \* line 11
  regionsControl,  \* the checkboxes: checked, disabled, legend colour domain
  chart,           \* the closure state of renderChart
  inside,          \* whether the pointer is over the chart's svg
  lastError        \* the exception the last handler ended with, or "none"

vars == <<data, years, nutrientTypes, regions, filters, filteredData,
          regionsControl, chart, inside, lastError>>

loaded == <<data, years, nutrientTypes, regions>>

\* The y values a pointer position is drawn from (data space).
PointerValues == {60, 100, 140}

\* Pointer positions over the plot, as numerators like the samples'.
PointerXs == { xScale(years, years[i]) : i \in 1..Len(years) }
PointerYs ==
  IF chart.yDomain[1] = NaN \/ chart.yDomain[1] = chart.yDomain[2]
  THEN { 2 * yRange[2], yRange[1] + yRange[2], 2 * yRange[1] }
  ELSE { yScale(chart.yDomain, b) :
           b \in { v \in PointerValues : chart.yDomain[1] <= v /\ v <= chart.yDomain[2] } }

\* The checked regions in checkbox order (lines 169-174).
currentValues(checked) == SelectSeq(regions, LAMBDA r : r \in checked)

\* Lines 177-183, with the cap written as ">" instead of "===" (a slip).
disabledAfterNever(values) == {}

\* Lines 177-183: at the cap, every unchecked box is disabled.
disabledAfter(values) ==
  IF Len(values) = MAX_COUNT
  THEN { r \in { regions[i] : i \in 1..Len(regions) } : ~includes(values, r) }
  ELSE {}

\* A plausible slip: the whole filter state is rebuilt from the event.
setFilterOnly(f, key, value) ==
  IF key = "regions" THEN [nutrientType |-> nutrientTypes[1], regions |-> value]
  ELSE [nutrientType |-> value, regions |-> <<>>]

\* Line 16: filters[key] = value.
setFilter(f, key, value) == [f EXCEPT ![key] = value]

(***************************************************************************)
(* Init: the state when the callback of d3.csv(...).then has run           *)
(* (lines 3-44) for some table.                                            *)
(***************************************************************************)
Init ==
  \E csv \in Tables :
    LET p == processData(csv)
        f == [nutrientType |-> p.nutrientTypes[1], regions |-> <<p.regions[1]>>]
        fd == filterData(p.data, f)
    IN /\ data = p.data
       /\ years = p.years
       /\ nutrientTypes = p.nutrientTypes
       /\ regions = p.regions
       /\ filters = f
       /\ filteredData = fd
       /\ regionsControl = [checked |-> {p.regions[1]}, disabled |-> {},
                            colorDomain |-> <<p.regions[1]>>]
       /\ \E kept \in updateKeptChoices(fd, p.years) :
            chart = updateData(renderChart(p.data), fd, p.years, kept)
       /\ inside = FALSE
       /\ lastError = "none"

(***************************************************************************)
(* handleFilterChange(event), lines 14-19.                                 *)
(***************************************************************************)
handleFilterChange(key, value) ==
  LET f == setFilter(filters, key, value)
      fd == filterData(data, f)
  IN /\ filters' = f
     /\ filteredData' = fd
     /\ \E kept \in updateKeptChoices(fd, years) :
          chart' = updateData(chart, fd, years, kept)
     /\ lastError' = "none"

\* The change event of a nutrient type radio button (lines 116-124): it
\* fires when a button other than the checked one is chosen.
NutrientTypeChange(t) ==
  /\ t # filters.nutrientType
  /\ handleFilterChange("nutrientType", t)
  /\ UNCHANGED <<loaded, regionsControl, inside>>

\* The change event of a region checkbox (lines 167-197); a disabled
\* checkbox cannot be toggled.
RegionChange(r) ==
  /\ r \notin regionsControl.disabled
  /\ LET checked == IF r \in regionsControl.checked
                    THEN regionsControl.checked \ {r}
                    ELSE regionsControl.checked \cup {r}
         values == currentValues(checked)
     IN /\ regionsControl' = [checked |-> checked, disabled |-> disabledAfter(values),
                              colorDomain |-> values]
        /\ handleFilterChange("regions", values)
  /\ UNCHANGED <<loaded, inside>>

(***************************************************************************)
(* The pointer handlers, lines 390-448.                                    *)
(***************************************************************************)
handleMouseEnter ==
  /\ ~inside
  /\ inside' = TRUE
  /\ chart' = [chart EXCEPT !.gDotsDisplay = "inline"]
  /\ lastError' = "none"
  /\ UNCHANGED <<loaded, filters, filteredData, regionsControl>>

\* A plausible slip: the chart's data is narrowed to the highlighted
\* records and the samples are flattened again from it.
highlightNarrowsData(c, i) ==
  LET year == c.flatData[i + 1][1]
      nutrient == c.flatData[i + 1][3]
      iYear == indexOf(years, year)
      highlightedData == SelectSeq(c.data, LAMBDA d : d.nutrient = nutrient)
  IN [ c EXCEPT
         !.iDelaunay = i,
         !.data = highlightedData,
         !.flatData = flatten(highlightedData, years),
         !.gLine = [ k \in 1..Len(c.gLine) |->
                       [ c.gLine[k] EXCEPT !.opacity =
                           IF c.gLine[k].datum.nutrient = nutrient
                           THEN OpacityFull ELSE OpacityDim ] ],
         !.gDot = [ k \in 1..Len(highlightedData) |->
                      [ key |-> joinKey(highlightedData[k]),
                        fill |-> ordinalColor(c.regions, highlightedData[k].region, "implicit"),
                        x |-> xScale(years, year),
                        y |-> yScale(c.yDomain, highlightedData[k].values[iYear]),
                        yDen |-> yDen(c.yDomain),
                        text |-> highlightedData[k].values[iYear] ] ] ]

\* A plausible slip: a marker for every visible record, not only for those
\* of the matched nutrient.
highlightMarksAll(c, i) ==
  LET year == c.flatData[i + 1][1]
      nutrient == c.flatData[i + 1][3]
      iYear == indexOf(years, year)
  IN [ c EXCEPT
         !.iDelaunay = i,
         !.gLine = [ k \in 1..Len(c.gLine) |->
                       [ c.gLine[k] EXCEPT !.opacity =
                           IF c.gLine[k].datum.nutrient = nutrient
                           THEN OpacityFull ELSE OpacityDim ] ],
         !.gDot = [ k \in 1..Len(c.data) |->
                      [ key |-> joinKey(c.data[k]),
                        fill |-> ordinalColor(c.regions, c.data[k].region, "implicit"),
                        x |-> xScale(years, year),
                        y |-> yScale(c.yDomain, c.data[k].values[iYear]),
                        yDen |-> yDen(c.yDomain),
                        text |-> c.data[k].values[iYear] ] ] ]

\* Lines 399-442: the overlay for a new match i (0-based).
highlight(c, i) ==
  LET year == c.flatData[i + 1][1]
      nutrient == c.flatData[i + 1][3]
      iYear == indexOf(years, year)
      highlightedData == SelectSeq(c.data, LAMBDA d : d.nutrient = nutrient)
  IN [ c EXCEPT
         !.iDelaunay = i,
         !.gLine = [ k \in 1..Len(c.gLine) |->
                       [ c.gLine[k] EXCEPT !.opacity =
                           IF c.gLine[k].datum.nutrient = nutrient
                           THEN OpacityFull ELSE OpacityDim ] ],
         !.gDot = [ k \in 1..Len(highlightedData) |->
                      [ key |-> joinKey(highlightedData[k]),
                        fill |-> ordinalColor(c.regions, highlightedData[k].region, "implicit"),
                        x |-> xScale(years, year),
                        y |-> yScale(c.yDomain, highlightedData[k].values[iYear]),
                        yDen |-> yDen(c.yDomain),
                        text |-> highlightedData[k].values[iYear] ] ] ]

\* A plausible slip: the overlay is redrawn on every move.
isNewMatchAlways(i, iDelaunay) == TRUE

\* Line 399: i !== iDelaunay (NaN differs from itself).
isNewMatch(i, iDelaunay) == i = NaN \/ i # iDelaunay

\* Line 397: the start of the walk, iDelaunay || 0.
findStart(iDelaunay) == IF iDelaunay = null \/ iDelaunay = NaN THEN 0 ELSE iDelaunay

\* handleMouseMove after find returned i, lines 399-443: the chart's state
\* and the exception the handler ends with.
mouseMoveOutcome(c, i) ==
  IF ~isNewMatch(i, c.iDelaunay)
  THEN [chart |-> c, error |-> "none"]
  ELSE IF i = NaN \/ i + 1 > Len(c.flatData)
  \* line 402: flatData[i] is undefined, destructuring it throws
  THEN [chart |-> [c EXCEPT !.iDelaunay = i], error |-> "TypeError"]
  ELSE [chart |-> highlight(c, i), error |-> "none"]

\* The outcomes of handleMouseMove(event) at pointer position (xm, ym).
mouseMoveResults(c, xm, ym) ==
  { mouseMoveOutcome(c, i) :
    i \in findResults(c.delaunay, xDen(years), [x |-> xm, y |-> ym], findStart(c.iDelaunay)) }

handleMouseMove(xm, ym) ==
  /\ inside
  /\ \E r \in mouseMoveResults(chart, xm, ym) :
       /\ chart' = r.chart
       /\ lastError' = r.error
  /\ UNCHANGED <<loaded, filters, filteredData, regionsControl, inside>>

\* A plausible slip: the overlay is hidden but the opacities stay.
handleMouseLeaveKeepsDim ==
  /\ inside
  /\ inside' = FALSE
  /\ chart' = [chart EXCEPT !.gDotsDisplay = "none"]
  /\ lastError' = "none"
  /\ UNCHANGED <<loaded, filters, filteredData, regionsControl>>

handleMouseLeave ==
  /\ inside
  /\ inside' = FALSE
  /\ chart' = [chart EXCEPT
                 !.gLine = [ k \in 1..Len(chart.gLine) |->
                               [chart.gLine[k] EXCEPT !.opacity = OpacityFull] ],
                 !.gDotsDisplay = "none"]
  /\ lastError' = "none"
  /\ UNCHANGED <<loaded, filters, filteredData, regionsControl>>

Next ==
  \/ \E t \in { nutrientTypes[i] : i \in 1..Len(nutrientTypes) } : NutrientTypeChange(t)
  \/ \E r \in { regions[i] : i \in 1..Len(regions) } : RegionChange(r)
  \/ handleMouseEnter
  \/ \E xm \in PointerXs, ym \in PointerYs : handleMouseMove(xm, ym)
  \/ handleMouseLeave

Spec == Init /\ [][Next]_vars

(***************************************************************************)
(* Properties.                                                             *)
(***************************************************************************)
Elements(seq) == { seq[i] : i \in 1..Len(seq) }

\* The k-th smallest element of a finite set of integers.
KthOf(S, k) == CHOOSE i \in S : Cardinality({ j \in S : j < i }) = k - 1

\* out is d restricted to the records of type f.nutrientType in a region
\* of f.regions, in the order of d.
IsExactFilter(out, d, f) ==
  LET idx == { i \in 1..Len(d) : /\ d[i].nutrientType = f.nutrientType
                                 /\ d[i].region \in Elements(f.regions) }
  IN /\ Len(out) = Cardinality(idx)
     /\ \A k \in 1..Len(out) : out[k] = d[KthOf(idx, k)]

\* Every filter state over the loaded domains: a type, and up to two
\* regions in any order.
FilterStates ==
  { [nutrientType |-> t, regions |-> rs] :
      t \in Elements(nutrientTypes),
      rs \in {<<>>} \cup { <<a>> : a \in Elements(regions) }
             \cup { <<a, b>> : a, b \in Elements(regions) } }

\* C1: for every record set and every filter state, filterData returns
\* exactly the records whose nutrientType is the filter's and whose region
\* is in the filter's regions, in the relative order of the input.
C1_FilterDataExact ==
  /\ \A f \in FilterStates : IsExactFilter(filterData(data, f), data, f)
  /\ IsExactFilter(filteredData, data, filters)

\* C1 witness: regions North and South are selected, two records are
\* visible, and a record of the selected type in another region is not.
C1_Witness ==
  /\ filters.regions = <<"North", "South">>
  /\ Len(filteredData) = 2
  /\ \E i \in 1..Len(data) : /\ data[i].nutrientType = filters.nutrientType
                             /\ data[i].region = "East"
  /\ \A k \in 1..Len(filteredData) : filteredData[k].region # "East"

\* C2: after any sequence of filter-change events the record set the chart
\* holds and draws is filterData(full record set, current filters), and a
\* filter-change event replaces one key of filters and leaves the other.
C2_ChartShowsFilteredData ==
  /\ [](/\ IsExactFilter(chart.data, data, filters)
        /\ filteredData = chart.data
        /\ [ i \in 1..Len(chart.gLine) |-> chart.gLine[i].datum ] = chart.data)
  /\ [][ \/ filters'.nutrientType = filters.nutrientType
         \/ filters'.regions = filters.regions ]_vars

\* C2 witness: both keys have been changed by events, and records are drawn.
C2_Witness ==
  /\ filters.nutrientType # nutrientTypes[1]
  /\ filters.regions # <<regions[1]>>
  /\ Len(chart.gLine) > 0
  /\ Len(chart.data) < Len(data)

\* C3: the regions filter delivered to the engine never holds more than
\* two regions.
C3_AtMostTwoRegions ==
  /\ Len(filters.regions) <= 2
  /\ Cardinality(regionsControl.checked) <= 2

\* C3 witness: two regions are selected and a third checkbox is disabled.
C3_Witness ==
  /\ Len(filters.regions) = 2
  /\ regionsControl.disabled # {}

\* C4: in every visible subset no two records share the key of the data
\* join (region and nutrient).
C4_KeysUnique ==
  \A i, j \in 1..Len(chart.data) :
    i # j => joinKey(chart.data[i]) # joinKey(chart.data[j])

\* The pixel (numerator) a value has under the chart's current y scale.
naturalY(v) == yScale(chart.yDomain, v)
AbsDiff(a, b) == IF a >= b THEN a - b ELSE b - a

\* C5: after every redraw, of two labels the one whose series ends higher
\* is rendered at least 12 pixels above the other (two labels of series
\* ending at the same value are at least 12 pixels apart).
C5_LabelsSeparated ==
  \A i, j \in 1..Len(chart.gLine) :
    LET a == chart.gLine[i]
        b == chart.gLine[j]
        den == yDen(chart.yDomain)
    IN /\ lastValue(a.datum) < lastValue(b.datum) => b.y <= a.y - 12 * den
       /\ (i # j /\ lastValue(a.datum) = lastValue(b.datum))
            => AbsDiff(a.y, b.y) >= 12 * den

\* C5 witness: two series are drawn whose end points are less than 12
\* pixels apart, so the pass had to move a label.
C5_Witness ==
  \E i, j \in 1..Len(chart.gLine) :
    /\ i # j
    /\ AbsDiff(naturalY(lastValue(chart.gLine[i].datum)),
               naturalY(lastValue(chart.gLine[j].datum))) < 12 * yDen(chart.yDomain)
    /\ AbsDiff(chart.gLine[i].y, chart.gLine[j].y) >= 12 * yDen(chart.yDomain)

\* The extreme values of the visible records, computed from the set of
\* all their values.
VisibleValues == { chart.data[r].values[y] : r \in 1..Len(chart.data), y \in 1..Len(years) }
LeastVisible == CHOOSE m \in VisibleValues : \A v \in VisibleValues : m <= v
GreatestVisible == CHOOSE m \in VisibleValues : \A v \in VisibleValues : m >= v

\* C6: whenever a pointer-move can be handled, the sample list and the
\* index it queries are those of the current visible record set, which is
\* the one the current filters select, and of the current y scale.
C6_IndexIsCurrent ==
  /\ IsExactFilter(chart.data, data, filters)
  /\ Len(chart.flatData) = Len(chart.data) * Len(years)
  /\ Len(chart.delaunay.points) = Len(chart.flatData)
  /\ chart.delaunay.yDen = yDen(chart.yDomain)
  /\ Len(chart.data) > 0 =>
       chart.yDomain = nice(<<Min2(90, LeastVisible), GreatestVisible>>)
  /\ \A r \in 1..Len(chart.data) : \A y \in 1..Len(years) :
       LET k == (r - 1) * Len(years) + y
       IN /\ chart.flatData[k] = <<years[y], chart.data[r].values[y], chart.data[r].nutrient>>
          /\ chart.delaunay.points[k] =
               [ x |-> xScale(years, years[y]),
                 y |-> yScale(chart.yDomain, chart.data[r].values[y]) ]

\* C6 witness: a pointer-move was answered after a filter change (every
\* update forgets the match, and the type is no longer the initial one).
C6_Witness ==
  /\ inside
  /\ filters.nutrientType # nutrientTypes[1]
  /\ chart.iDelaunay # null /\ chart.iDelaunay # NaN
  /\ Len(chart.data) < Len(data)

\* C7: a pointer-move whose find result is the remembered match changes
\* nothing, and a second move at the position of a first one leaves the
\* opacities, the markers and the remembered match as the first left them.
C7_SameMatchIsNoOp ==
  inside =>
    \A xm \in PointerXs, ym \in PointerYs :
      /\ \A i \in findResults(chart.delaunay, xDen(years), [x |-> xm, y |-> ym],
                              findStart(chart.iDelaunay)) :
           i = chart.iDelaunay => mouseMoveOutcome(chart, i).chart = chart
      /\ \A r1 \in mouseMoveResults(chart, xm, ym) :
           \A r2 \in mouseMoveResults(r1.chart, xm, ym) : r2.chart = r1.chart

\* C7 witness: the pointer is inside, a match is remembered of which no
\* highlight is shown (two nutrients are drawn, none is dimmed), and a
\* move at some position finds that match again.
C7_Witness ==
  /\ inside
  /\ chart.iDelaunay # null /\ chart.iDelaunay # NaN
  /\ \E a, b \in 1..Len(chart.data) : chart.data[a].nutrient # chart.data[b].nutrient
  /\ \A k \in 1..Len(chart.gLine) : chart.gLine[k].opacity = OpacityFull
  /\ \E xm \in PointerXs, ym \in PointerYs :
       chart.iDelaunay \in findResults(chart.delaunay, xDen(years), [x |-> xm, y |-> ym],
                                       findStart(chart.iDelaunay))

\* C8: with an empty visible subset no series is drawn, and a pointer-move
\* raises no error and leaves the remembered match (none, since the
\* update) and the opacities as they are.
C8_EmptyMoveIsHarmless ==
  Len(chart.data) = 0 =>
    /\ Len(chart.gLine) = 0
    /\ lastError = "none"
    /\ chart.iDelaunay = null

\* C9: after every update with a non-empty visible set, the y domain
\* before rounding is [min(90, least visible value), greatest visible
\* value], whatever the records that are not visible hold.
C9_DomainFromVisible ==
  Len(chart.data) > 0 =>
    /\ chart.minY = (IF LeastVisible < 90 THEN LeastVisible ELSE 90)
    /\ chart.maxY = GreatestVisible
    /\ (\A v \in VisibleValues : v >= 95) => chart.minY = 90

\* C9 witness: every visible value is >= 95, the lower bound is 90, and a
\* record that is not visible holds a value below 90.
C9_Witness ==
  /\ Len(chart.data) > 0
  /\ \A v \in VisibleValues : v >= 95
  /\ chart.minY = 90
  /\ \E r \in 1..Len(data) : \E y \in 1..Len(years) : data[r].values[y] < 90
  /\ filters.nutrientType # nutrientTypes[1]

\* The pixel of sample k (0-based) of the current sample list under the
\* current scales.
samplePixel(k) ==
  [ x |-> xScale(years, chart.flatData[k + 1][1]),
    y |-> yScale(chart.yDomain, chart.flatData[k + 1][2]) ]
SampleIndexes == 0..(Len(chart.flatData) - 1)
samplePixels == [k \in SampleIndexes |-> samplePixel(k)]

\* The squared distances of the samples from the position m.
sampleDist2(px, m) ==
  [k \in SampleIndexes |-> Dist2(px[k], m, xDen(years), yDen(chart.yDomain))]

\* The starts the hit-test may be seeded with: 0, or the remembered match.
HintStarts == {0, findStart(chart.iDelaunay)}

\* The pointer positions.
PointerPositions == {[x |-> xm, y |-> ym] : xm \in PointerXs, ym \in PointerYs}

\* C10 as stated: the hit-test returns a sample at the least distance from
\* the position, whatever the hint, and at the exact coordinate of a
\* sample it returns that sample.
C10_FindNearestAndExact ==
  (inside /\ Len(chart.flatData) > 0) =>
    LET px == samplePixels
    IN \A m \in PointerPositions :
         LET d == sampleDist2(px, m)
         IN \A start \in HintStarts :
              \A i \in findResults(chart.delaunay, xDen(years), m, start) :
                /\ \A k \in SampleIndexes : d[i] <= d[k]
                /\ \A k \in SampleIndexes : px[k] = m => i = k

\* C10 as amended: the hit-test returns a sample at the least distance from
\* the position, whatever the hint; at the exact coordinate of a sample it
\* returns a sample at that coordinate, which is that sample when no other
\* sample has the same coordinate.
C10_FindNearest ==
  (inside /\ Len(chart.flatData) > 0) =>
    LET px == samplePixels
    IN \A m \in PointerPositions :
         LET d == sampleDist2(px, m)
         IN \A start \in HintStarts :
              \A i \in findResults(chart.delaunay, xDen(years), m, start) :
                /\ i \in SampleIndexes
                /\ \A k \in SampleIndexes : d[i] <= d[k]
                /\ \A k \in SampleIndexes :
                     px[k] = m =>
                       /\ px[i] = m
                       /\ (\A j \in SampleIndexes : px[j] = m => j = k) => i = k

\* C10 witness: a move was answered, two samples share a pixel, a pointer
\* position is the exact coordinate of a sample, and another position is
\* at the same distance from two samples at different pixels.
C10_Witness ==
  /\ inside
  /\ chart.iDelaunay # null /\ chart.iDelaunay # NaN
  /\ \E j, k \in SampleIndexes : j # k /\ samplePixel(j) = samplePixel(k)
  /\ \E xm \in PointerXs, ym \in PointerYs : \E k \in SampleIndexes :
       samplePixel(k) = [x |-> xm, y |-> ym]
  /\ \E xm \in PointerXs, ym \in PointerYs : \E j, k \in SampleIndexes :
       /\ samplePixel(j) # samplePixel(k)
       /\ {j, k} \subseteq nearest(chart.delaunay, xDen(years), [x |-> xm, y |-> ym])

C12_EnterStartsFresh ==
  [][ (~inside /\ inside') =>
        /\ chart'.gDotsDisplay = "inline"
        /\ chart'.gDot = <<>>
        /\ chart'.iDelaunay = null ]_vars

\* The year and the nutrient of sample i (0-based) of chart state c.
sampleYear(c, i) == c.flatData[i + 1][1]
sampleNutrient(c, i) == c.flatData[i + 1][3]

\* In c the series of the nutrient of sample i are at full opacity and
\* every other series is dimmed.
OpacitiesAgree(c, i) ==
  /\ Len(c.gLine) = Len(c.data)
  /\ \A k \in 1..Len(c.data) :
       c.gLine[k].opacity =
         (IF c.data[k].nutrient = sampleNutrient(c, i) THEN OpacityFull ELSE OpacityDim)

\* In c the markers are one per record of the nutrient of sample i, in the
\* order of the records, each at the year of sample i and the record's
\* value in that year under the y scale of c, labelled with that value.
MarkersAgree(c, i) ==
  LET idx == { r \in 1..Len(c.data) : c.data[r].nutrient = sampleNutrient(c, i) }
      yi == CHOOSE y \in 1..Len(years) : years[y] = sampleYear(c, i)
  IN /\ Len(c.gDot) = Cardinality(idx)
     /\ \A k \in 1..Len(c.gDot) :
          LET rec == c.data[KthOf(idx, k)]
          IN /\ c.gDot[k].key = joinKey(rec)
             /\ c.gDot[k].x = xScale(years, sampleYear(c, i))
             /\ c.gDot[k].y = yScale(c.yDomain, rec.values[yi])
             /\ c.gDot[k].yDen = yDen(c.yDomain)
             /\ c.gDot[k].text = rec.values[yi]

\* C13: a pointer-move whose match i differs from the remembered one
\* leaves the series of i's nutrient at full opacity and the others
\* dimmed, one marker per visible record of that nutrient at i's year and
\* the record's value, and i remembered.
C13_NewMatchHighlights ==
  inside =>
    \A m \in PointerPositions :
      \A i \in findResults(chart.delaunay, xDen(years), m, findStart(chart.iDelaunay)) :
        (i # NaN /\ i # chart.iDelaunay) =>
          LET after == mouseMoveOutcome(chart, i)
          IN /\ after.error = "none"
             /\ after.chart.iDelaunay = i
             /\ OpacitiesAgree(after.chart, i)
             /\ MarkersAgree(after.chart, i)
             /\ after.chart.gDotsDisplay = "inline"

\* C13 witness: a match is remembered and highlighted whose nutrient two
\* visible records share, and a series of another nutrient is dimmed.
C13_Witness ==
  /\ inside
  /\ chart.iDelaunay # null /\ chart.iDelaunay # NaN
  /\ Len(chart.gDot) = 2
  /\ OpacitiesAgree(chart, chart.iDelaunay)
  /\ MarkersAgree(chart, chart.iDelaunay)
  /\ \E k \in 1..Len(chart.gLine) : chart.gLine[k].opacity = OpacityDim

\* C14: whenever the pointer is outside the chart (after a leave, and
\* through filter changes made meanwhile) every series is at full opacity
\* and the overlay is hidden.
C14_IdleIsPlain ==
  ~inside =>
    /\ \A k \in 1..Len(chart.gLine) : chart.gLine[k].opacity = OpacityFull
    /\ chart.gDotsDisplay = "none"

\* C14 witness: the pointer is outside after a highlight and a later
\* filter change (markers exist, the update has forgotten the match), and
\* two nutrients are drawn.
C14_Witness ==
  /\ ~inside
  /\ chart.iDelaunay = null
  /\ Len(chart.gDot) > 0
  /\ \E a, b \in 1..Len(chart.gLine) :
       chart.gLine[a].datum.nutrient # chart.gLine[b].datum.nutrient

\* C15: every visible series has the palette colour at the position of its
\* region in the selected regions list, which is the colour of that
\* region's label in the region control.
C15_ColourIsLegendColour ==
  \A k \in 1..Len(chart.gLine) :
    LET r == chart.gLine[k].datum.region
    IN /\ includes(filters.regions, r)
       /\ chart.gLine[k].stroke = COLOR_SCHEME[indexOf(filters.regions, r)]
       /\ chart.gLine[k].stroke = ordinalColor(regionsControl.colorDomain, r, "currentColor")

\* Line element i's label is placed before line element j's: its series
\* ends lower, or ends at the same value and comes first in the data.
PlacedBefore(i, j) ==
  \/ lastValue(chart.gLine[i].datum) < lastValue(chart.gLine[j].datum)
  \/ /\ lastValue(chart.gLine[i].datum) = lastValue(chart.gLine[j].datum)
     /\ i < j

\* The line elements whose labels are placed before j's, and the last of them.
PlacedBeforeSet(j) == { i \in 1..Len(chart.gLine) : PlacedBefore(i, j) }
PreviousLabel(j) ==
  CHOOSE p \in PlacedBeforeSet(j) : \A q \in PlacedBeforeSet(j) : q = p \/ PlacedBefore(q, p)

\* C16: no label is below its natural y; the label of the series ending
\* lowest is at its natural y; a label whose natural y is at least 12
\* pixels above the label placed before it is at its natural y, and any
\* other label is exactly 12 pixels above the label placed before it.
C16_LabelsOnlyPushedUp ==
  \A j \in 1..Len(chart.gLine) :
    LET nat == naturalY(lastValue(chart.gLine[j].datum))
        gap == LabelGap * yDen(chart.yDomain)
    IN /\ chart.gLine[j].y <= nat
       /\ PlacedBeforeSet(j) = {} => chart.gLine[j].y = nat
       /\ PlacedBeforeSet(j) # {} =>
            LET prev == chart.gLine[PreviousLabel(j)].y
            IN IF nat <= prev - gap
               THEN chart.gLine[j].y = nat
               ELSE chart.gLine[j].y = prev - gap

\* C16 witness: three labels, of which the lowest is at its natural y, one
\* that is not the lowest is at its natural y too, and one is pushed up.
C16_Witness ==
  /\ Len(chart.gLine) = 3
  /\ \E j \in 1..3 :
       /\ PlacedBeforeSet(j) # {}
       /\ chart.gLine[j].y = naturalY(lastValue(chart.gLine[j].datum))
  /\ \E j \in 1..3 :
       /\ chart.gLine[j].y < naturalY(lastValue(chart.gLine[j].datum))
       /\ chart.gLine[j].y =
            chart.gLine[PreviousLabel(j)].y - LabelGap * yDen(chart.yDomain)

\* What a redraw draws of a line element: all but its opacity.
drawnPart(g) ==
  [ k \in 1..Len(g) |->
      [ key |-> g[k].key, datum |-> g[k].datum, stroke |-> g[k].stroke,
        text |-> g[k].text, y |-> g[k].y ] ]

\* A step of a pointer handler: the pointer enters or leaves, or stays
\* inside while no filter changes.
PointerStep == inside' # inside \/ (inside /\ filters' = filters)

\* C17: a pointer enter, move or leave leaves the record sets, the
\* filters, the region control, the y domain, the colour domain, the
\* samples, the index and what is drawn of every series as they are.
C17_PointerEventsDoNotRedraw ==
  [][ PointerStep =>
        /\ UNCHANGED <<data, filters, filteredData, regionsControl>>
        /\ chart'.data = chart.data
        /\ chart'.minY = chart.minY /\ chart'.maxY = chart.maxY
        /\ chart'.yDomain = chart.yDomain
        /\ chart'.regions = chart.regions
        /\ chart'.flatData = chart.flatData
        /\ chart'.delaunay = chart.delaunay
        /\ drawnPart(chart'.gLine) = drawnPart(chart.gLine) ]_vars

\* C17 witness: the pointer is inside, a move has set the overlay (a
\* match is remembered, a series is dimmed, markers are shown).
C17_Witness ==
  /\ inside
  /\ chart.iDelaunay # null /\ chart.iDelaunay # NaN
  /\ chart.gDotsDisplay = "inline"
  /\ Len(chart.gDot) > 0
  /\ \E k \in 1..Len(chart.gLine) : chart.gLine[k].opacity = OpacityDim
  /\ \E k \in 1..Len(chart.gLine) : chart.gLine[k].opacity = OpacityFull

\* Marker m shows record r in the year of index y under the current scales.
MarkerShows(m, r, y) ==
  /\ m.key = joinKey(r)
  /\ m.text = r.values[y]
  /\ m.x = xScale(years, years[y])
  /\ m.y * yDen(chart.yDomain) = yScale(chart.yDomain, r.values[y]) * m.yDen

\* C18: whenever the overlay is visible, every marker in it belongs to a
\* record of the current visible set and sits at a current value of that
\* record.
C18_MarkersAreCurrent ==
  chart.gDotsDisplay = "inline" =>
    \A k \in 1..Len(chart.gDot) :
      \E r \in 1..Len(chart.data) : \E y \in 1..Len(years) :
        MarkerShows(chart.gDot[k], chart.data[r], y)

\* C19: whenever the pointer is inside and a match is remembered, the
\* dimmed series are exactly those of another nutrient than the remembered
\* sample's, and the markers are those of its nutrient and year.
C19_HighlightAgreesWithMatch ==
  (inside /\ chart.iDelaunay # null /\ chart.iDelaunay # NaN) =>
    /\ OpacitiesAgree(chart, chart.iDelaunay)
    /\ MarkersAgree(chart, chart.iDelaunay)

\* C20: every data update leaves no match remembered, and then, with a
\* non-empty visible set, a pointer-move at any position draws the overlay
\* of the sample it finds from the current data.
C20_UpdateForgetsMatch ==
  /\ [][ filters' # filters => chart'.iDelaunay = null ]_vars
  /\ []( (inside /\ chart.iDelaunay = null /\ Len(chart.data) > 0) =>
           \A m \in PointerPositions :
             \A i \in findResults(chart.delaunay, xDen(years), m, findStart(chart.iDelaunay)) :
               LET after == mouseMoveOutcome(chart, i)
               IN /\ i \in SampleIndexes
                  /\ after.error = "none"
                  /\ after.chart.iDelaunay = i
                  /\ Len(after.chart.gDot) > 0
                  /\ OpacitiesAgree(after.chart, i)
                  /\ MarkersAgree(after.chart, i) )

\* C20 witness: the pointer is inside, the filters are not the initial
\* ones, no match is remembered although markers of a match made before
\* the update exist, one of them for the first visible record, and some
\* position finds sample 0 (a sample of that record) again.
C20_Witness ==
  /\ inside
  /\ filters.regions # <<regions[1]>>
  /\ chart.iDelaunay = null
  /\ Len(chart.data) > 0
  /\ \E k \in 1..Len(chart.gDot) : chart.gDot[k].key = joinKey(chart.data[1])
  /\ \E m \in PointerPositions :
       0 \in findResults(chart.delaunay, xDen(years), m, findStart(chart.iDelaunay))

====
